---- MODULE Spec2Model ----
(***************************************************************************)
(* truvari stats (src/truvari/stats.py): the classifier functions          *)
(* get_svtype, get_sizebin, get_gt, get_scalebin, and stats_main, which    *)
(* tallies one cell of a 4-dimensional array per VCF entry and then writes *)
(* the report sections.                                                    *)
(*                                                                         *)
(* Python values: None is <<>> and a present value v is <<v>>, so that an  *)
(* absent quality or allele is comparable with a present one.  A string    *)
(* that is parsed character by character (the SVTYPE label given to eval)  *)
(* is a sequence of one-character strings.  A call returns                 *)
(* [exc |-> "none", val |-> v] or raises, [exc |-> name, val |-> ...].     *)
(***************************************************************************)
EXTENDS Integers, Sequences, FiniteSets, Bags, TLC

VARIABLES
    pc,          \* position in stats_main, or "call" in the classifier harness
    nfiles,      \* len(args.VCF)
    fi,          \* number of files of args.VCF opened so far
    entry,       \* the entry being classified (svtype, size, GT, qual)
    sv, sz, gt, qual, idx,   \* the loop's locals (lines 129-132)
    data,        \* the numpy array of line 124
    output,      \* the sections written to args.out, in order
    exc,         \* the exception that ended the run, "none" otherwise
    seen,        \* history: the bag of entries the loop has read
    call         \* the function the last step ran

vars == <<pc, nfiles, fi, entry, sv, sz, gt, qual, idx, data, output, exc,
          seen, call>>

-----------------------------------------------------------------------------
(* Bounds of the model *)

MaxFiles == 2
MaxRecs == 3
MaxAllele == 2
MaxPloidy == 3
MaxQual == 105
SizeDelta == 1

-----------------------------------------------------------------------------
(* Python values *)

None == <<>>
Some(v) == <<v>>

Return(v) == [exc |-> "none", val |-> v]
Raise(e) == [exc |-> e, val |-> None]

abs(x) == IF x < 0 THEN -x ELSE x

\* range(start, stop, step) for step > 0, as a sequence
range(start, stop, step) ==
    LET n == IF stop > start THEN (stop - start + step - 1) \div step ELSE 0
    IN  [k \in 1..n |-> start + (k - 1) * step]

-----------------------------------------------------------------------------
(* Module constants, lines 16-38 *)

\* sys.maxsize; 2^31 - 1 is its value on a 32-bit build (2^63 - 1 on a 64-bit
\* one): only its being the largest bound of SZBINMAX matters below.
sys_maxsize == 2147483647

SZBINS == <<"[0,50)", "[50,100)", "[100,200)", "[200,300)", "[300,400)",
            "[400,600)", "[600,800)", "[800,1k)", "[1k,2.5k)",
            "[2.5k,5k)", ">=5k">>

SZBINMAX == <<50, 100, 200, 300, 400, 600, 800, 1000, 2500, 5000, sys_maxsize>>

QUALBINS ==
    LET xs == range(0, 100, 10)
    IN  [k \in 1..Len(xs) |-> "[" \o ToString(xs[k]) \o "," \o ToString(xs[k] + 10) \o ")"]
        \o <<">=100">>

\* class GT: member name |-> value
GT == [NON |-> 3, REF |-> 0, HET |-> 1, HOM |-> 2, UNK |-> 4]

\* class SV: member name |-> value
SV == [DEL |-> 0, INS |-> 1, DUP |-> 2, INV |-> 3, NON |-> 4, UNK |-> 5]

\* iteration order of the two enums (definition order)
GTOrder == <<"NON", "REF", "HET", "HOM", "UNK">>
SVOrder == <<"DEL", "INS", "DUP", "INV", "NON", "UNK">>

-----------------------------------------------------------------------------
(* get_svtype, lines 58-66 *)

Letters == {"A", "B", "C", "D", "E", "F", "G", "H", "I", "J", "K", "L", "M",
            "N", "O", "P", "Q", "R", "S", "T", "U", "V", "W", "X", "Y", "Z",
            "a", "b", "c", "d", "e", "f", "g", "h", "i", "j", "k", "l", "m",
            "n", "o", "p", "q", "r", "s", "t", "u", "v", "w", "x", "y", "z"}
Digits == {"0", "1", "2", "3", "4", "5", "6", "7", "8", "9"}

\* str(x) as the f-string of line 63 formats it
py_str(x) == IF x = None THEN <<"N", "o", "n", "e">> ELSE x[1]

\* the text is a Python identifier
IsIdentifier(t) ==
    /\ Len(t) > 0
    /\ t[1] \in Letters \cup {"_"}
    /\ \A i \in 1..Len(t) : t[i] \in Letters \cup Digits \cup {"_"}

\* reserved words, which the parser rejects as attribute names
Keywords == { <<"N", "o", "n", "e">>, <<"T", "r", "u", "e">>,
              <<"F", "a", "l", "s", "e">>, <<"d", "e", "l">>,
              <<"i", "n">>, <<"i", "s">>, <<"o", "r">>, <<"i", "f">> }

\* the members of class SV by the characters of their names
SVMembers == { [chars |-> <<"D", "E", "L">>, name |-> "DEL"],
               [chars |-> <<"I", "N", "S">>, name |-> "INS"],
               [chars |-> <<"D", "U", "P">>, name |-> "DUP"],
               [chars |-> <<"I", "N", "V">>, name |-> "INV"],
               [chars |-> <<"N", "O", "N">>, name |-> "NON"],
               [chars |-> <<"U", "N", "K">>, name |-> "UNK"] }

\* attributes an Enum class has besides its members; what they evaluate to
SVClassAttrs == { [chars |-> <<"_", "_", "m", "e", "m", "b", "e", "r", "s", "_", "_">>,
                   name |-> "<mappingproxy>"],
                  [chars |-> <<"m", "r", "o">>, name |-> "<built-in method mro>"] }

\* eval("SV." + t), for t over letters, digits, "_" and ":" (no blank, "." or
\* "#", which the parser would treat as layout, attribute access or comment)
eval_SV_dot(t) ==
    IF ~IsIdentifier(t) \/ t \in Keywords
    THEN Raise("SyntaxError")
    ELSE IF \E m \in SVMembers \cup SVClassAttrs : m.chars = t
    THEN Return((CHOOSE m \in SVMembers \cup SVClassAttrs : m.chars = t).name)
    ELSE Raise("AttributeError")

get_svtype(svtype) ==
    LET r == eval_SV_dot(py_str(svtype))
    IN  IF r.exc = "none" THEN r
        ELSE IF r.exc = "AttributeError" THEN Return("UNK")
        ELSE r

-----------------------------------------------------------------------------
(* get_sizebin, lines 69-77 *)

RECURSIVE sizebin_scan(_, _)
sizebin_scan(a, k) ==
    IF k > Len(SZBINS) THEN None
    ELSE IF a <= SZBINMAX[k] THEN Some(SZBINS[k])
    ELSE sizebin_scan(a, k + 1)

\* (mutant) the sign of the size is kept
get_sizebin_signed(size) == sizebin_scan(size, 1)

\* Some(key), or None when no bound admits the size
get_sizebin(size) == sizebin_scan(abs(size), 1)

-----------------------------------------------------------------------------
(* get_gt, lines 80-94 *)

\* (mutant) the arity is checked before the missing alleles
get_gt_arity_first(g) ==
    IF Len(g) # 2 THEN "UNK"
    ELSE IF \E i \in 1..Len(g) : g[i] = None THEN "NON"
    ELSE IF g = <<Some(0), Some(0)>> THEN "REF"
    ELSE IF g[1] # g[2] THEN "HET"
    ELSE "HOM"

get_gt(g) ==
    IF \E i \in 1..Len(g) : g[i] = None THEN "NON"
    ELSE IF Len(g) # 2 THEN "UNK"
    ELSE IF g = <<Some(0), Some(0)>> THEN "REF"
    ELSE IF g[1] # g[2] THEN "HET"
    ELSE IF g[1] = g[2] THEN "HOM"
    ELSE "UNK"

-----------------------------------------------------------------------------
(* get_scalebin, lines 97-112 *)

\* newx = (x - rmin) / (rmax - rmin) * (tmax - tmin) + tmin as the exact
\* fraction num / den; newx < e is decided on the fraction.  (For integer
\* scores and the default ranges the double rounding of lines 107 and 110
\* never crosses a bucket edge.)
newx_num(x, rmin, rmax, tmin, tmax) == (x - rmin) * (tmax - tmin) + tmin * (rmax - rmin)
newx_den(rmin, rmax) == rmax - rmin

\* (mutant) the upper edge of a bucket belongs to it
newx_less_or_equal(x, rmin, rmax, tmin, tmax, e) ==
    IF newx_den(rmin, rmax) > 0
    THEN newx_num(x, rmin, rmax, tmin, tmax) <= e * newx_den(rmin, rmax)
    ELSE newx_num(x, rmin, rmax, tmin, tmax) >= e * newx_den(rmin, rmax)

newx_less(x, rmin, rmax, tmin, tmax, e) ==
    IF newx_den(rmin, rmax) > 0
    THEN newx_num(x, rmin, rmax, tmin, tmax) < e * newx_den(rmin, rmax)
    ELSE newx_num(x, rmin, rmax, tmin, tmax) > e * newx_den(rmin, rmax)

binlabel(lo, hi) == "[" \o ToString(lo) \o "," \o ToString(hi) \o ")"

RECURSIVE scalebin_scan(_, _, _, _, _, _, _)
scalebin_scan(x, rmin, rmax, tmin, tmax, step, p) ==
    LET edges == range(tmin, tmax, step)
    IN  IF p > Len(edges)
        THEN <<">=" \o ToString(tmax), IF Len(edges) = 0 THEN 1 ELSE Len(edges)>>
        ELSE IF newx_less(x, rmin, rmax, tmin, tmax, edges[p] + step)
        THEN <<binlabel(edges[p], edges[p] + step), p - 1>>
        ELSE scalebin_scan(x, rmin, rmax, tmin, tmax, step, p + 1)

\* returns <<key, index>>; x is None or Some(score)
get_scalebin(x, rmin, rmax, tmin, tmax, step) ==
    IF x = None THEN Raise("TypeError")
    ELSE IF rmax = rmin THEN Raise("ZeroDivisionError")
    ELSE Return(scalebin_scan(x[1], rmin, rmax, tmin, tmax, step, 1))

\* the defaults of line 97
rmin_default == 0
rmax_default == 100
tmin_default == 0
tmax_default == 100
step_default == 10

get_scalebin_default(x) ==
    get_scalebin(x, rmin_default, rmax_default, tmin_default, tmax_default, step_default)

-----------------------------------------------------------------------------
(* The array of line 124 and its sums *)

SVValues == 0..(Cardinality(DOMAIN SV) - 1)
SZIndexes == 0..(Len(SZBINS) - 1)
GTValues == 0..(Cardinality(DOMAIN GT) - 1)
QUALIndexes == 0..(Len(QUALBINS) - 1)

Cells == SVValues \X SZIndexes \X GTValues \X QUALIndexes

\* numpy.zeros((len(SV), len(SZBINS), len(GT), len(QUALBINS)))
numpy_zeros ==
    [a \in SVValues |-> [b \in SZIndexes |-> [c \in GTValues |-> [q \in QUALIndexes |-> 0]]]]

RECURSIVE SumF(_, _, _)
SumF(f, lo, hi) == IF lo > hi THEN 0 ELSE f[lo] + SumF(f, lo + 1, hi)

\* d[a1:a2+1, b1:b2+1, c1:c2+1, q1:q2+1].sum()
ndsum(d, a1, a2, b1, b2, c1, c2, q1, q2) ==
    SumF([a \in a1..a2 |->
        SumF([b \in b1..b2 |->
            SumF([c \in c1..c2 |->
                SumF([q \in q1..q2 |-> d[a][b][c][q]], q1, q2)], c1, c2)], b1, b2)],
        a1, a2)

LastSV == Cardinality(DOMAIN SV) - 1
LastSZ == Len(SZBINS) - 1
LastGT == Cardinality(DOMAIN GT) - 1
LastQUAL == Len(QUALBINS) - 1

\* SZBINS.index(key), 0-based
SZBINS_index(key) == (CHOOSE k \in 1..Len(SZBINS) : SZBINS[k] = key) - 1

\* (mutant) the division of Python floats: a zero divisor raises
true_divide_python(a, b) ==
    IF b = 0 THEN Raise("ZeroDivisionError")
    ELSE Return([marker |-> "num", num |-> a, den |-> b])

\* numpy.float64 / numpy.float64: a zero divisor gives inf or nan with a
\* RuntimeWarning, which line 119 silences; no exception
true_divide(a, b) ==
    IF b = 0
    THEN Return([marker |-> IF a = 0 THEN "nan" ELSE "inf", num |-> a, den |-> b])
    ELSE Return([marker |-> "num", num |-> a, den |-> b])

-----------------------------------------------------------------------------
(* Inputs *)

mk_entry(t, s, g, q) == [svtype |-> t, size |-> s, GT |-> g, qual |-> q]

\* the value of `entry` before the first entry is read
NoEntry == mk_entry(None, 0, <<>>, None)

\* the entries the VCF files of the run are made of
Entries == {
    mk_entry(Some(<<"D", "E", "L">>), -30, <<Some(0), Some(1)>>, Some(15)),
    mk_entry(Some(<<"I", "N", "S">>), 120, <<Some(0), Some(0)>>, Some(95)),
    mk_entry(Some(<<"B", "N", "D">>), 6000, <<None, Some(1)>>, Some(5)),
    mk_entry(Some(<<"D", "E", "L">>), 50, <<Some(1), Some(1)>>, Some(100)),
    mk_entry(Some(<<"D", "U", "P">>), 5000, <<Some(0), Some(1)>>, None),
    mk_entry(Some(<<"D", "U", "P", ":", "T", "A", "N", "D", "E", "M">>), 300,
             <<Some(1), Some(1)>>, Some(40)) }

\* type labels given to get_svtype alone
Labels == {None} \cup { Some(m.chars) : m \in SVMembers \cup SVClassAttrs }
          \cup { Some(<<>>), Some(<<"B", "N", "D">>), Some(<<"C", "N", "V">>),
                 Some(<<"d", "e", "l">>), Some(<<"X", "9">>), Some(<<"9", "a">>),
                 Some(<<"D", "U", "P", ":", "T", "A", "N", "D", "E", "M">>) }

\* lengths given to get_sizebin alone: around every bound, both signs
Sizes ==
    LET near == { SZBINMAX[k] + d : k \in 1..(Len(SZBINMAX) - 1), d \in (-SizeDelta)..SizeDelta }
                \cup { 0, 30, 120, 6000, sys_maxsize - 1, sys_maxsize }
    IN  near \cup { -a : a \in near }

\* genotype calls given to get_gt alone: every arity up to MaxPloidy
Alleles == {None} \cup { Some(a) : a \in 0..MaxAllele }
RECURSIVE Tuples(_)
Tuples(n) == IF n = 0 THEN { <<>> }
             ELSE { Append(t, a) : t \in Tuples(n - 1), a \in Alleles }
Genotypes == UNION { Tuples(n) : n \in 0..MaxPloidy }

\* quality scores given to get_scalebin alone
Quals == {None} \cup { Some(x) : x \in (-5)..MaxQual }

-----------------------------------------------------------------------------
(* stats_main, lines 115-177 *)

Init ==
    /\ pc = "for_fn"
    /\ nfiles \in 1..MaxFiles
    /\ fi = 0
    /\ entry = NoEntry
    /\ sv = ""
    /\ sz = None
    /\ gt = ""
    /\ qual = ""
    /\ idx = -1
    /\ data = numpy_zeros
    /\ output = <<>>
    /\ exc = "none"
    /\ seen = EmptyBag
    /\ call = "none"

\* (mutant) the array is created anew for every file
OpenFile_fresh_array ==
    /\ pc = "for_fn"
    /\ fi < nfiles
    /\ fi' = fi + 1
    /\ pc' = "for_entry"
    /\ call' = "stats_main"
    /\ data' = numpy_zeros
    /\ UNCHANGED <<nfiles, entry, sv, sz, gt, qual, idx, output, exc, seen>>

\* line 126-127: the next file of args.VCF is opened
OpenFile ==
    /\ pc = "for_fn"
    /\ fi < nfiles
    /\ fi' = fi + 1
    /\ pc' = "for_entry"
    /\ call' = "stats_main"
    /\ UNCHANGED <<nfiles, entry, sv, sz, gt, qual, idx, data,
                   output, exc, seen>>

\* line 133: the subscript is evaluated left to right, then the cell is incremented
increment(d, v_sv, v_sz, v_gt, v_idx) ==
    IF v_sv \notin DOMAIN SV THEN Raise("AttributeError")
    ELSE IF v_sz = None THEN Raise("ValueError")
    ELSE LET cell == <<SV[v_sv], SZBINS_index(v_sz[1]), GT[v_gt], v_idx>>
         IN  IF cell \notin Cells THEN Raise("IndexError")
             ELSE Return([d EXCEPT ![cell[1]][cell[2]][cell[3]][cell[4]] = @ + 1])

\* lines 128-133: one entry of the current file goes through the loop body
Entry(e) ==
    /\ pc = "for_entry"
    /\ BagCardinality(seen) < MaxRecs
    /\ entry' = e
    /\ seen' = seen (+) SetToBag({e})
    /\ call' = "stats_main"
    /\ LET r_sv == get_svtype(e.svtype)
           r_q == get_scalebin_default(e.qual)
       IN  IF r_sv.exc # "none"
           THEN /\ exc' = r_sv.exc
                /\ pc' = "aborted"
                /\ UNCHANGED <<sv, sz, gt, qual, idx, data>>
           ELSE /\ sv' = r_sv.val
                /\ sz' = get_sizebin(e.size)
                /\ gt' = get_gt(e.GT)
                /\ IF r_q.exc # "none"
                   THEN /\ exc' = r_q.exc
                        /\ pc' = "aborted"
                        /\ UNCHANGED <<qual, idx, data>>
                   ELSE /\ qual' = r_q.val[1]
                        /\ idx' = r_q.val[2]
                        /\ LET r_d == increment(data, sv', sz', gt', idx')
                           IN  IF r_d.exc # "none"
                               THEN /\ exc' = r_d.exc
                                    /\ pc' = "aborted"
                                    /\ data' = data
                               ELSE /\ exc' = exc
                                    /\ pc' = pc
                                    /\ data' = r_d.val
    /\ UNCHANGED <<nfiles, fi, output>>

\* line 128: the current file has no further entry
EndOfFile ==
    /\ pc = "for_entry"
    /\ pc' = "for_fn"
    /\ call' = "stats_main"
    /\ UNCHANGED <<nfiles, fi, entry, sv, sz, gt, qual, idx,
                   data, output, exc, seen>>

\* (mutant) the genotype totals are written before the SVxSZ counts
after_gt_first(p) ==
    CASE p = "for_fn" -> "sv_counts"
      [] p = "sv_counts" -> "gt_counts"
      [] p = "gt_counts" -> "svxsz_counts"
      [] p = "svxsz_counts" -> "svxgt_counts"
      [] p = "svxgt_counts" -> "hethom"
      [] p = "hethom" -> "svxsz_hethom"
      [] p = "svxsz_hethom" -> "qual_dist"
      [] p = "qual_dist" -> "done"

\* the order of the statements after the loops, lines 137-177
after(p) ==
    CASE p = "for_fn" -> "sv_counts"
      [] p = "sv_counts" -> "svxsz_counts"
      [] p = "svxsz_counts" -> "gt_counts"
      [] p = "gt_counts" -> "svxgt_counts"
      [] p = "svxgt_counts" -> "hethom"
      [] p = "hethom" -> "svxsz_hethom"
      [] p = "svxsz_hethom" -> "qual_dist"
      [] p = "qual_dist" -> "done"

\* line 126: args.VCF is exhausted.  (joblib.dump of lines 135-136 copies the
\* array to a file and changes nothing here.)
EndOfFiles ==
    /\ pc = "for_fn"
    /\ fi = nfiles
    /\ pc' = after(pc)
    /\ call' = "stats_main"
    /\ UNCHANGED <<nfiles, fi, entry, sv, sz, gt, qual, idx,
                   data, output, exc, seen>>

\* a section is written: its header and its lines
write(title, body) ==
    /\ output' = Append(output, [title |-> title, body |-> body])
    /\ pc' = after(pc)
    /\ UNCHANGED <<nfiles, fi, entry, sv, sz, gt, qual, idx,
                   data, exc, seen, call>>

\* a statement of the report raised: the run ends there
abort(e) ==
    /\ exc' = e
    /\ pc' = "aborted"
    /\ UNCHANGED <<nfiles, fi, entry, sv, sz, gt, qual, idx,
                   data, output, seen, call>>

\* lines 137-139
WriteSVCounts ==
    /\ pc = "sv_counts"
    /\ write("# SV counts",
             [k \in 1..Len(SVOrder) |->
                <<SVOrder[k], ndsum(data, SV[SVOrder[k]], SV[SVOrder[k]],
                                    0, LastSZ, 0, LastGT, 0, LastQUAL)>>])

\* lines 141-147
WriteSVxSZCounts ==
    /\ pc = "svxsz_counts"
    /\ write("# SVxSZ counts",
             [i \in 1..Len(SZBINS) |->
                <<SZBINS[i],
                  [k \in 1..Len(SVOrder) |->
                     ndsum(data, SV[SVOrder[k]], SV[SVOrder[k]], i - 1, i - 1,
                           0, LastGT, 0, LastQUAL)]>>])

\* lines 149-151
WriteGTCounts ==
    /\ pc = "gt_counts"
    /\ write("# GT counts",
             [k \in 1..Len(GTOrder) |->
                <<GTOrder[k], ndsum(data, 0, LastSV, 0, LastSZ,
                                    GT[GTOrder[k]], GT[GTOrder[k]], 0, LastQUAL)>>])

\* lines 153-159
WriteSVxGTCounts ==
    /\ pc = "svxgt_counts"
    /\ write("# SVxGT counts",
             [g \in 1..Len(GTOrder) |->
                <<GTOrder[g],
                  [k \in 1..Len(SVOrder) |->
                     ndsum(data, SV[SVOrder[k]], SV[SVOrder[k]], 0, LastSZ,
                           GT[GTOrder[g]], GT[GTOrder[g]], 0, LastQUAL)]>>])

\* lines 161-162
WriteHetHom ==
    /\ pc = "hethom"
    /\ LET r == true_divide(
                  ndsum(data, 0, LastSV, 0, LastSZ, GT.HET, GT.HET, 0, LastQUAL),
                  ndsum(data, 0, LastSV, 0, LastSZ, GT.HOM, GT.HOM, 0, LastQUAL))
       IN  IF r.exc # "none" THEN abort(r.exc)
           ELSE write("# Het/Hom ratio", <<r.val>>)

\* lines 169-171, for one bin and one type
cell_ratio(i, k) ==
    true_divide(
        ndsum(data, SV[SVOrder[k]], SV[SVOrder[k]], i - 1, i - 1,
              GT.HET, GT.HET, 0, LastQUAL),
        ndsum(data, SV[SVOrder[k]], SV[SVOrder[k]], i - 1, i - 1,
              GT.HOM, GT.HOM, 0, LastQUAL))

\* lines 164-172
WriteSVxSZHetHom ==
    /\ pc = "svxsz_hethom"
    /\ LET rs == [i \in 1..Len(SZBINS) |-> [k \in 1..Len(SVOrder) |-> cell_ratio(i, k)]]
           bad == { <<i, k>> \in (1..Len(SZBINS)) \X (1..Len(SVOrder)) :
                        rs[i][k].exc # "none" }
       IN  IF bad # {}
           THEN abort(rs[(CHOOSE c \in bad : TRUE)[1]][(CHOOSE c \in bad : TRUE)[2]].exc)
           ELSE write("# SVxSZ Het/Hom ratios",
                      [i \in 1..Len(SZBINS) |->
                         <<SZBINS[i], [k \in 1..Len(SVOrder) |-> rs[i][k].val]>>])

\* lines 174-177
WriteQualDist ==
    /\ pc = "qual_dist"
    /\ LET edges == range(0, 100, 10)
           pos == Len(edges) - 1
       IN  write("# QUAL distribution",
                 [p \in 1..Len(edges) |->
                    <<binlabel(edges[p], edges[p] + 10),
                      ndsum(data, 0, LastSV, 0, LastSZ, 0, LastGT, p - 1, p - 1)>>]
                 \o << <<">=" \o ToString(100),
                         ndsum(data, 0, LastSV, 0, LastSZ, 0, LastGT, pos + 1, pos + 1)>> >>)

Next ==
    \/ OpenFile
    \/ \E e \in Entries : Entry(e)
    \/ EndOfFile
    \/ EndOfFiles
    \/ WriteSVCounts
    \/ WriteSVxSZCounts
    \/ WriteGTCounts
    \/ WriteSVxGTCounts
    \/ WriteHetHom
    \/ WriteSVxSZHetHom
    \/ WriteQualDist

Spec == Init /\ [][Next]_vars

-----------------------------------------------------------------------------
(* The classifier functions called one at a time on the inputs above *)

ClassifierInit ==
    /\ pc = "call"
    /\ nfiles = 0
    /\ fi = 0
    /\ entry = NoEntry
    /\ sv = ""
    /\ sz = None
    /\ gt = ""
    /\ qual = ""
    /\ idx = -1
    /\ data = None          \* no array: stats_main is not running
    /\ output = <<>>
    /\ exc = "none"
    /\ seen = EmptyBag
    /\ call = "none"

CallGetSvtype(t) ==
    /\ pc = "call"
    /\ call' = "get_svtype"
    /\ entry' = [NoEntry EXCEPT !.svtype = t]
    /\ LET r == get_svtype(t)
       IN  /\ exc' = r.exc
           /\ sv' = IF r.exc = "none" THEN r.val ELSE ""
    /\ sz' = None /\ gt' = "" /\ qual' = "" /\ idx' = -1
    /\ pc' = "returned"
    /\ UNCHANGED <<nfiles, fi, data, output, seen>>

CallGetSizebin(s) ==
    /\ pc = "call"
    /\ call' = "get_sizebin"
    /\ entry' = [NoEntry EXCEPT !.size = s]
    /\ sz' = get_sizebin(s)
    /\ exc' = "none"
    /\ sv' = "" /\ gt' = "" /\ qual' = "" /\ idx' = -1
    /\ pc' = "returned"
    /\ UNCHANGED <<nfiles, fi, data, output, seen>>

CallGetGt(g) ==
    /\ pc = "call"
    /\ call' = "get_gt"
    /\ entry' = [NoEntry EXCEPT !.GT = g]
    /\ gt' = get_gt(g)
    /\ exc' = "none"
    /\ sv' = "" /\ sz' = None /\ qual' = "" /\ idx' = -1
    /\ pc' = "returned"
    /\ UNCHANGED <<nfiles, fi, data, output, seen>>

CallGetScalebin(x) ==
    /\ pc = "call"
    /\ call' = "get_scalebin"
    /\ entry' = [NoEntry EXCEPT !.qual = x]
    /\ LET r == get_scalebin_default(x)
       IN  /\ exc' = r.exc
           /\ qual' = IF r.exc = "none" THEN r.val[1] ELSE ""
           /\ idx' = IF r.exc = "none" THEN r.val[2] ELSE -1
    /\ sv' = "" /\ sz' = None /\ gt' = ""
    /\ pc' = "returned"
    /\ UNCHANGED <<nfiles, fi, data, output, seen>>

ClassifierNext ==
    \/ \E t \in Labels : CallGetSvtype(t)
    \/ \E s \in Sizes : CallGetSizebin(s)
    \/ \E g \in Genotypes : CallGetGt(g)
    \/ \E x \in Quals : CallGetScalebin(x)

ClassifierSpec == ClassifierInit /\ [][ClassifierNext]_vars

-----------------------------------------------------------------------------
(* Properties *)

AllSum(d) == ndsum(d, 0, LastSV, 0, LastSZ, 0, LastGT, 0, LastQUAL)

Reporting == {"sv_counts", "svxsz_counts", "gt_counts", "svxgt_counts",
              "hethom", "svxsz_hethom", "qual_dist", "done"}

\* C1: after every prefix of the entries fed to the loop, the sum over all
\* cells of the array equals the number of entries fed; none is dropped or
\* counted twice.
C1_TotalConservation == AllSum(data) = BagCardinality(seen)

\* the lower bounds the labels of SZBINS name
SizeBinLow == <<0, 50, 100, 200, 300, 400, 600, 800, 1000, 2500, 5000>>
HalfOpenBin(a) == CHOOSE k \in 1..Len(SizeBinLow) :
    /\ SizeBinLow[k] <= a
    /\ k < Len(SizeBinLow) => a < SizeBinLow[k + 1]

\* C2: get_sizebin returns the bucket whose half-open interval holds |sz|:
\* lower bound <= |sz| < upper bound, and ">=5k" for every |sz| >= 5000.
C2_HalfOpenBuckets ==
    call = "get_sizebin" => sz = Some(SZBINS[HalfOpenBin(abs(entry.size))])

HasMissing(g) == \E i \in 1..Len(g) : g[i] = None

\* C3: get_gt checks in this order: a missing allele gives NON, then an arity
\* other than 2 gives UNK, then (0,0) gives REF, then differing alleles give
\* HET, then equal non-reference alleles give HOM; (None, 0, 0) is NON.
C3_GenotypeOrder ==
    call = "get_gt" =>
        LET g == entry.GT
        IN  /\ gt \in DOMAIN GT
            /\ HasMissing(g) => gt = "NON"
            /\ (~HasMissing(g) /\ Len(g) # 2) => gt = "UNK"
            /\ g = <<Some(0), Some(0)>> => gt = "REF"
            /\ (~HasMissing(g) /\ Len(g) = 2 /\ g[1] # g[2]) => gt = "HET"
            /\ (~HasMissing(g) /\ Len(g) = 2 /\ g[1] = g[2] /\ g[1] # Some(0))
                   => gt = "HOM"
            /\ g = <<None, Some(0), Some(0)>> => gt = "NON"

C3_Witness ==
    /\ call = "get_gt"
    /\ entry.GT = <<None, Some(0), Some(0)>>
    /\ gt = "NON"

\* C4: get_svtype never raises and returns a member of SV for every label:
\* the named member for one of the six names, UNK for every other label.
C4_SvtypeTotal ==
    call = "get_svtype" =>
        /\ exc = "none"
        /\ sv \in DOMAIN SV
        /\ \A m \in SVMembers : entry.svtype = Some(m.chars) => sv = m.name
        /\ (\A m \in SVMembers : entry.svtype # Some(m.chars)) => sv = "UNK"

\* C5: for a numeric score get_scalebin returns the first bucket whose upper
\* edge is strictly greater than the score, so a score on an interior edge is
\* in the higher bucket; a score at or beyond the maximum is in the overflow
\* bucket, whose index is the number of finite buckets; the index is in
\* 0..bucket_count and the label is the QUALBINS entry at that index.
C5_ScalebinEdges ==
    (call = "get_scalebin" /\ entry.qual # None) =>
        LET x == entry.qual[1]
            buckets == Len(QUALBINS) - 1
        IN  /\ exc = "none"
            /\ idx \in 0..buckets
            /\ qual = QUALBINS[idx + 1]
            /\ idx < buckets => x < step_default * (idx + 1)
            /\ idx > 0 => x >= step_default * idx
            /\ x >= tmax_default => idx = buckets

C5_Witness ==
    /\ call = "get_scalebin"
    /\ entry.qual = Some(30)
    /\ idx = 3
    /\ qual = "[30,40)"

Undefined == {"nan", "inf"}

\* C6: a zero homozygous count, overall or in an SV x size cell (also when the
\* heterozygous count is zero too), gives the undefined marker and no
\* exception; every ratio cell and the later QUAL section are still written.
C6_RatioGuard ==
    /\ exc # "ZeroDivisionError"
    /\ pc \in Reporting => exc = "none"
    /\ Len(output) >= 5 =>
           /\ Len(output[5].body) = 1
           /\ output[5].body[1].den = 0 => output[5].body[1].marker \in Undefined
    /\ Len(output) >= 6 =>
           /\ Len(output[6].body) = Len(SZBINS)
           /\ \A i \in 1..Len(SZBINS) :
                  /\ Len(output[6].body[i][2]) = Len(SVOrder)
                  /\ \A k \in 1..Len(SVOrder) :
                         output[6].body[i][2][k].den = 0
                             => output[6].body[i][2][k].marker \in Undefined
    /\ pc = "done" =>
           /\ Len(output) = 7
           /\ output[7].title = "# QUAL distribution"

C6_Witness ==
    /\ pc = "done"
    /\ Len(output) = 7
    /\ output[5].body[1].marker = "inf"
    /\ \E i \in 1..Len(SZBINS), k \in 1..Len(SVOrder) :
           output[6].body[i][2][k].marker = "inf"
    /\ \E i \in 1..Len(SZBINS), k \in 1..Len(SVOrder) :
           output[6].body[i][2][k].marker = "nan"

\* C7: an entry whose quality is absent is classified without raising: it gets
\* a valid quality index, one cell is incremented for it, and the loop goes on.
C7_MissingQualClassified ==
    (call = "stats_main" /\ BagCardinality(seen) > 0 /\ entry.qual = None) =>
        /\ exc = "none"
        /\ pc # "aborted"
        /\ idx \in QUALIndexes
        /\ AllSum(data) = BagCardinality(seen)

\* C8: get_sizebin(x) = get_sizebin(-x) for every length x, and the result is
\* one of the eleven SZBINS labels for |x| up to sys.maxsize, so that
\* SZBINS.index finds it.
C8_LengthSymmetry ==
    call = "get_sizebin" =>
        /\ sz = get_sizebin(-entry.size)
        /\ sz # None
        /\ \E k \in 1..Len(SZBINS) : sz = Some(SZBINS[k])
        /\ SZBINS_index(sz[1]) \in SZIndexes

C8_Witness ==
    /\ call = "get_sizebin"
    /\ entry.size = -120
    /\ sz = Some("[100,200)")

\* the cell an entry is tallied in
cell_of(e) ==
    <<SV[get_svtype(e.svtype).val], SZBINS_index(get_sizebin(e.size)[1]),
      GT[get_gt(e.GT)], get_scalebin_default(e.qual).val[2]>>

\* the tally of a bag of entries: every distinct entry adds its number of
\* copies to its cell; the bag knows neither their order nor their files
RECURSIVE AddCopies(_, _, _)
AddCopies(B, S, d) ==
    IF S = {} THEN d
    ELSE LET e == CHOOSE x \in S : TRUE
             c == cell_of(e)
         IN  AddCopies(B, S \ {e},
                       [d EXCEPT ![c[1]][c[2]][c[3]][c[4]] = @ + CopiesIn(e, B)])

TallyOfBag(B) == AddCopies(B, BagToSet(B), numpy_zeros)

\* C9: the array depends only on which entries were read, not on their order
\* nor on how they are split over the files: it is never reset between files,
\* and it is the element-wise sum of the tallies of the parts.
C9_OrderIndependent == pc # "aborted" => data = TallyOfBag(seen)

C9_Witness ==
    /\ pc = "done"
    /\ fi = 2
    /\ BagCardinality(seen) = 3
    /\ Cardinality(BagToSet(seen)) >= 2

\* the sections in the order the report has them
ReportOrder == <<"# SV counts", "# SVxSZ counts", "# GT counts", "# SVxGT counts",
                 "# Het/Hom ratio", "# SVxSZ Het/Hom ratios", "# QUAL distribution">>

C10_Linear ==
    /\ output # <<>> => (fi = nfiles /\ pc \in Reporting)
    /\ Len(output) <= Len(ReportOrder)
    /\ \A i \in 1..Len(output) : output[i].title = ReportOrder[i]
    /\ pc = "done" =>
           /\ Len(output) = Len(ReportOrder)
           /\ output[7].body[Len(output[7].body)][1] = ">=100"

\* C10: no section is written before every entry of every file is tallied,
\* the array is not modified once the report starts, and the sections are
\* written once each in the fixed order, the overflow quality bucket last.
C10_TwoPassLinear ==
    /\ []C10_Linear
    /\ [][(pc \in Reporting) => (data' = data /\ seen' = seen /\ fi' = fi)]_vars
    /\ [][output' # output => (pc \in Reporting /\ Len(output') = Len(output) + 1)]_vars

C10_Witness ==
    /\ pc = "done"
    /\ Len(output) = 7
    /\ BagCardinality(seen) >= 2
    /\ fi = 2

====
